---- MODULE Spec2Model ----
(***************************************************************************)
(* A model of prasunnyD/NFL_Data.                                          *)
(*                                                                         *)
(*   SpecDb     the storage functions of database.py (write_to_db,         *)
(*              write_to_game_db, insert_into_db) run, one call at a time, *)
(*              against one destination table of the store.  A call is a   *)
(*              sequence of SQL statements; the connection is in DuckDB's  *)
(*              autocommit mode (the code never issues BEGIN), so every    *)
(*              statement is its own transaction and conn.commit() is a    *)
(*              no-op.  The store may become unreachable before any        *)
(*              statement.                                                 *)
(*   SpecFetch  one run of players.get_multiple_player_gamelogs_async or   *)
(*              of players.get_player_stats_async: one task per player, a  *)
(*              semaphore of max_concurrent slots,                         *)
(*              asyncio.gather(return_exceptions=True), then the loop that *)
(*              combines the results.                                      *)
(*   FairSpecGamelogs  the gamelogs orchestrator under a fair scheduler.   *)
(*   SpecPipeline  one run of pipeline.player_data_pipeline or of          *)
(*              pipeline.team_data_pipeline: Prefect tasks called one      *)
(*              after the other, each making its writes to the store.      *)
(*   SpecOdds   two runs of pipeline.get_prop_odds over the same events,   *)
(*              markets and bookmaker responses.                           *)
(*   SpecKeyed  the storage functions called repeatedly by one job with    *)
(*              tables of distinct non-NULL keys.                          *)
(*   SpecScrape scraping.PlaywrightScraper: scrape_url's retry loop,       *)
(*              scrape_multiple_urls, and teams.sumer_advanced_stats,      *)
(*              which consumes its results.                                *)
(***************************************************************************)
EXTENDS Integers, Sequences, FiniteSets, TLC

VARIABLES
    \* ---- the store (database.py)
    db,          \* the destination table: [exists, schema, rows]
    call,        \* the call in progress, or the last one: [op, id_field, df]
    pc,          \* the statement the call is about to execute
    status,      \* how the last call ended
    pre,         \* the destination table when the call started
    repeat,      \* the call repeats the previous, successful, call
    \* ---- the fetch orchestrator (players.py)
    fn,              \* the function that runs: "gamelogs" or "stats"
    player_ids,      \* the input list: one [id, position] per player
    max_concurrent,  \* the argument max_concurrent
    response,        \* what the remote source answers for each player
    task,            \* each task's position
    semaphore,       \* the semaphore's value: its free slots
    results,         \* asyncio.gather's result list
    fpc,             \* the position of the function
    valid_dataframes,\* gamelogs: the dataframes kept by the combining loop
    rushing_data,    \* stats: the rushing dataframes collected
    receiving_data,  \* stats: the receiving dataframes collected
    log,             \* the players an error was logged for
    \* ---- the data pipelines (pipeline.py)
    flow,            \* the flow that runs
    team_dict,       \* populate_roster: the number of teams of teams.get_teams()
    categories,      \* populate_team_stats: the number of stat categories
    step,            \* the index, in the flow, of the task the flow is at
    unit,            \* the writes the running task has made
    task_state,      \* each task's state: pending, running, completed, failed
    flow_state,      \* the flow run's state
    cause,           \* what made the flow fail
    \* ---- the odds flow (pipeline.py)
    games,           \* what the odds API answers for each (event, market)
    run,             \* the run of get_prop_odds: the first or the second
    position,        \* the (event, market) pair the loop is at
    table_exists,    \* the local flag table_exists
    nfl_prop_odds,   \* the table: [exists, rows], rows a multiset of records
    odds_state,      \* the run's state
    first_run,       \* the rows of the table when the first run returned
    \* ---- the scraper (scraping.py, teams.py)
    caller,          \* who scrapes: scrape_url called directly, or a function
                     \* of teams.py through scrape_multiple_urls
    urls,            \* the list of URLs
    table_index,     \* the argument table_index
    max_retries,     \* self.max_retries
    url_index,       \* scrape_multiple_urls: the URL the loop is at
    attempt,         \* scrape_url: the attempts made for this URL
    spc,             \* the position in scrape_url
    result,          \* scrape_url: the ScrapingResult being built
    scrape_results,  \* scrape_multiple_urls: the list results
    produced,        \* an attempt for this URL has parsed the requested table
    returned         \* what sumer_advanced_stats returned, or its exception

dbvars == <<db, call, pc, status, pre, repeat>>
fetchvars == <<fn, player_ids, max_concurrent, response, task, semaphore,
               results, fpc, valid_dataframes, rushing_data, receiving_data, log>>
pipevars == <<flow, team_dict, categories, step, unit, task_state, flow_state,
              cause>>
oddsvars == <<games, run, position, table_exists, nfl_prop_odds, odds_state,
              first_run>>
scrapevars == <<caller, urls, table_index, max_retries, url_index, attempt,
                spc, result, scrape_results, produced, returned>>
flowvars == <<flow, team_dict, categories, step, unit, task_state, flow_state,
              cause, games, run, position, table_exists, nfl_prop_odds,
              odds_state, first_run>>
vars == <<db, call, pc, status, pre, repeat, fn, player_ids, max_concurrent,
          response, task, semaphore, results, fpc, valid_dataframes,
          rushing_data, receiving_data, log, flow, team_dict, categories, step,
          unit, task_state, flow_state, cause, games, run, position,
          table_exists, nfl_prop_odds, odds_state, first_run, caller, urls,
          table_index, max_retries, url_index, attempt, spc, result,
          scrape_results, produced, returned>>

(***************************************************************************)
(* Bounds of the model.                                                    *)
(***************************************************************************)
MaxTableRows == 3
MaxDfRows == 2
MaxPlayers == 3
MaxConcurrent == 2
MaxTeams == 3
MaxCategories == 2
MaxRequests == 3
MaxRetries == 2

(***************************************************************************)
(* Tables.  A row has a game_id column, which may be NULL, and a           *)
(* player_id column; either can be the id_field of write_to_db.  A table   *)
(* (a DuckDB relation, a registered dataframe) is a multiset of rows: a    *)
(* function from rows to multiplicities.  The schema stands for the        *)
(* table's other columns: an INSERT ... SELECT * between two schemas is    *)
(* rejected by the binder.                                                 *)
(***************************************************************************)
NULL == 0
GameIds == {NULL, 1, 2}
PlayerIds == {1, 2}
Rows == [game_id : GameIds, player_id : PlayerIds]
Schemas == {"s1", "s2"}
IdFields == {"game_id", "player_id"}

RECURSIVE SumOver(_, _)
SumOver(S, f) ==
    IF S = {} THEN 0
    ELSE LET x == CHOOSE y \in S : TRUE IN f[x] + SumOver(S \ {x}, f)

NoRows == [r \in Rows |-> 0]
RowCount(t) == SumOver(Rows, t)
Plus(t, u) == [r \in Rows |-> t[r] + u[r]]
\* SELECT <column> FROM <t>
Column(t, col) == {r[col] : r \in {x \in Rows : t[x] > 0}}

DataFrames ==
    {d \in [schema : Schemas, rows : [Rows -> 0..MaxDfRows]] :
        RowCount(d.rows) <= MaxDfRows}

(***************************************************************************)
(* SQL's three-valued logic: x IN (subquery), NOT, and WHERE, which keeps  *)
(* the rows whose condition is true (neither false nor NULL).              *)
(***************************************************************************)
\* faulty variant: a two-valued IN, in which NULL equals NULL
SqlIn_TwoValued(x, S) == IF x \in S THEN "true" ELSE "false"

SqlIn(x, S) ==
    IF S = {} THEN "false"
    ELSE IF x = NULL THEN "null"
    ELSE IF x \in S THEN "true"
    ELSE IF NULL \in S THEN "null"
    ELSE "false"

SqlNot(v) == IF v = "true" THEN "false" ELSE IF v = "false" THEN "true" ELSE "null"

(***************************************************************************)
(* The statements of database.py.                                          *)
(***************************************************************************)
\* faulty variant: CREATE TABLE ... AS SELECT * FROM df WHERE game_id IS NOT NULL
CreateTableAs_DropNullKeys(df) ==
    [exists |-> TRUE, schema |-> df.schema,
     rows |-> [r \in Rows |-> IF r.game_id = NULL THEN 0 ELSE df.rows[r]]]

\* CREATE TABLE {table_name} AS SELECT * FROM df
CreateTableAs(df) == [exists |-> TRUE, schema |-> df.schema, rows |-> df.rows]

\* faulty variant: a DELETE that drops the table it has emptied
DeleteWhereIn_DropsEmptied(t, id_field, temp_df) ==
    LET rows == [r \in Rows |->
                    IF SqlIn(r[id_field], Column(temp_df.rows, id_field)) = "true"
                    THEN 0 ELSE t.rows[r]]
    IN  IF rows = NoRows THEN [exists |-> FALSE, schema |-> "s1", rows |-> NoRows]
        ELSE [t EXCEPT !.rows = rows]

\* faulty variant: a DELETE that removes nothing
DeleteWhereIn_NoDelete(t, id_field, temp_df) == t

\* DELETE FROM {table_name} WHERE {id_field} IN (SELECT {id_field} FROM temp_df)
DeleteWhereIn(t, id_field, temp_df) ==
    [t EXCEPT !.rows =
        [r \in Rows |->
            IF SqlIn(r[id_field], Column(temp_df.rows, id_field)) = "true"
            THEN 0 ELSE t.rows[r]]]

\* INSERT INTO {table_name} SELECT * FROM temp_df: the rows appended
InsertAll(t, temp_df) == [t EXCEPT !.rows = Plus(t.rows, temp_df.rows)]

\* the binder accepts INSERT INTO t SELECT * FROM temp_df
InsertBinds(t, temp_df) == t.schema = temp_df.schema

\* faulty variant: the INSERT of insert_into_db without its WHERE clause
InsertWhereNotIn_NoWhere(t, temp_df) ==
    [t EXCEPT !.rows = Plus(t.rows, temp_df.rows)]

\* INSERT INTO {table_name} SELECT * FROM temp_df
\*    WHERE game_id NOT IN (SELECT game_id FROM {table_name})
InsertWhereNotIn(t, temp_df) ==
    [t EXCEPT !.rows =
        Plus(t.rows,
             [r \in Rows |->
                 IF SqlNot(SqlIn(r.game_id, Column(t.rows, "game_id"))) = "true"
                 THEN temp_df.rows[r] ELSE 0])]

Absent == [exists |-> FALSE, schema |-> "s1", rows |-> NoRows]

Ops == {"write_to_db", "write_to_game_db", "insert_into_db", "get_from_db"}

\* the column the call's DELETE compares: id_field, or the literal game_id
KeyOf(c) == IF c.op = "write_to_db" THEN c.id_field ELSE "game_id"

\* get_from_db(query) takes no dataframe: its call carries the empty one
NoDf == [schema |-> "s1", rows |-> NoRows]

Calls ==
    {c \in [op : Ops, id_field : IdFields, df : DataFrames] :
        /\ c.op # "write_to_db" => c.id_field = "game_id"
        /\ c.op = "get_from_db" => c.df = NoDf}

\* the model's bound on the table: the rows the call would leave if every
\* statement succeeded fit in MaxTableRows
WithinBounds(t, c) ==
    LET after == IF c.op = "get_from_db" THEN t.rows
                 ELSE IF ~t.exists THEN c.df.rows
                 ELSE IF c.op = "insert_into_db" THEN InsertWhereNotIn(t, c.df).rows
                 ELSE InsertAll(DeleteWhereIn(t, KeyOf(c), c.df), c.df).rows
    IN  RowCount(after) <= MaxTableRows

NoCall == [op |-> "none", id_field |-> "game_id",
           df |-> [schema |-> "s1", rows |-> NoRows]]

\* the state of the data pipelines while another part is exercised
PipelineIdle ==
    /\ flow = "none"
    /\ team_dict = 0
    /\ categories = 0
    /\ step = 0
    /\ unit = 0
    /\ task_state = <<>>
    /\ flow_state = "none"
    /\ cause = "none"

\* the state of the odds flow while another part is exercised
OddsIdle ==
    /\ games = <<>>
    /\ run = 0
    /\ position = 0
    /\ table_exists = FALSE
    /\ nfl_prop_odds = [exists |-> FALSE, rows |-> <<>>]
    /\ odds_state = "none"
    /\ first_run = <<>>

\* ScrapingResult(url=url, success=False)
ScrapingResult(url) ==
    [url |-> url, success |-> FALSE, dataframe |-> "None", error |-> "None",
     tables_found |-> 0]

\* the state of the scraper while another part is exercised
ScrapeIdle ==
    /\ caller = "none"
    /\ urls = <<>>
    /\ table_index = 0
    /\ max_retries = 0
    /\ url_index = 0
    /\ attempt = 0
    /\ spc = "idle"
    /\ result = ScrapingResult("none")
    /\ scrape_results = <<>>
    /\ produced = FALSE
    /\ returned = "none"

\* the state of the fetch orchestrator while the store is exercised
FetchIdle ==
    /\ fn = "none"
    /\ player_ids = <<>>
    /\ max_concurrent = 1
    /\ response = <<>>
    /\ task = <<>>
    /\ semaphore = 0
    /\ results = <<>>
    /\ fpc = "idle"
    /\ valid_dataframes = <<>>
    /\ rushing_data = <<>>
    /\ receiving_data = <<>>
    /\ log = {}

InitDb ==
    /\ db = Absent
    /\ call = NoCall
    /\ pc = "idle"
    /\ status = "none"
    /\ pre = Absent
    /\ repeat = "no"
    /\ FetchIdle
    /\ PipelineIdle
    /\ OddsIdle
    /\ ScrapeIdle

(***************************************************************************)
(* duckdb.connect and the information_schema query that open each of the   *)
(* three functions: table_exists selects the branch.                       *)
(***************************************************************************)
Branch(c) ==
    IF c.op = "get_from_db" THEN "select"
    ELSE IF ~db.exists THEN "create"
    ELSE IF c.op = "insert_into_db" THEN "insert_new"
    ELSE "delete"

\* a caller calls one of the three functions
Connect(c) ==
    /\ pc = "idle"
    /\ WithinBounds(db, c)
    /\ call' = c
    /\ pre' = db
    /\ repeat' = "no"
    /\ status' = "running"
    /\ pc' = Branch(c)
    /\ UNCHANGED db
    /\ UNCHANGED fetchvars
    /\ UNCHANGED flowvars
    /\ UNCHANGED scrapevars

\* the caller calls the same function again with the same arguments, right
\* after a call that returned normally
Repeat ==
    /\ pc = "done" /\ status = "ok"
    /\ WithinBounds(db, call)
    /\ pre' = db
    /\ repeat' = IF pre.exists THEN "after_update" ELSE "after_create"
    /\ status' = "running"
    /\ pc' = Branch(call)
    /\ UNCHANGED <<db, call>>
    /\ UNCHANGED fetchvars
    /\ UNCHANGED flowvars
    /\ UNCHANGED scrapevars

\* the call is over (returned or raised) and the caller goes on
Return ==
    /\ pc = "done"
    /\ pc' = "idle"
    /\ call' = NoCall
    /\ pre' = db
    /\ status' = "none"
    /\ repeat' = "no"
    /\ UNCHANGED db
    /\ UNCHANGED fetchvars
    /\ UNCHANGED flowvars
    /\ UNCHANGED scrapevars

\* the store becomes unreachable before the next statement: conn.execute
\* raises, the with block closes the connection, the exception reaches the
\* caller.  The statements already executed were committed one by one.
\* (Failing before the first statement leaves what a failing duckdb.connect
\* leaves: the table as it was.)
StoreFails ==
    /\ pc \in {"create", "delete", "insert", "insert_new", "select"}
    /\ status' = "ConnectionError"
    /\ pc' = "done"
    /\ UNCHANGED <<db, call, pre, repeat>>
    /\ UNCHANGED fetchvars
    /\ UNCHANGED flowvars
    /\ UNCHANGED scrapevars

(***************************************************************************)
(* write_to_db(df, table_name, id_field)                                   *)
(***************************************************************************)
write_to_db_create ==
    /\ call.op = "write_to_db" /\ pc = "create"
    /\ db' = CreateTableAs(call.df)
    /\ pc' = "commit"
    /\ UNCHANGED <<call, status, pre, repeat>>
    /\ UNCHANGED fetchvars
    /\ UNCHANGED flowvars
    /\ UNCHANGED scrapevars

write_to_db_delete ==
    /\ call.op = "write_to_db" /\ pc = "delete"
    /\ db' = DeleteWhereIn(db, call.id_field, call.df)
    /\ pc' = "insert"
    /\ UNCHANGED <<call, status, pre, repeat>>
    /\ UNCHANGED fetchvars
    /\ UNCHANGED flowvars
    /\ UNCHANGED scrapevars

write_to_db_insert ==
    /\ call.op = "write_to_db" /\ pc = "insert"
    /\ IF InsertBinds(db, call.df)
       THEN /\ db' = InsertAll(db, call.df)
            /\ pc' = "commit"
            /\ UNCHANGED status
       ELSE /\ status' = "SchemaConflict"
            /\ pc' = "done"
            /\ UNCHANGED db
    /\ UNCHANGED <<call, pre, repeat>>
    /\ UNCHANGED fetchvars
    /\ UNCHANGED flowvars
    /\ UNCHANGED scrapevars

\* conn.commit() with no transaction open changes nothing; the call returns
write_to_db_commit ==
    /\ call.op = "write_to_db" /\ pc = "commit"
    /\ status' = "ok"
    /\ pc' = "done"
    /\ UNCHANGED <<db, call, pre, repeat>>
    /\ UNCHANGED fetchvars
    /\ UNCHANGED flowvars
    /\ UNCHANGED scrapevars

(***************************************************************************)
(* write_to_game_db(df, table_name)                                        *)
(***************************************************************************)
write_to_game_db_create ==
    /\ call.op = "write_to_game_db" /\ pc = "create"
    /\ db' = CreateTableAs(call.df)
    /\ pc' = "commit"
    /\ UNCHANGED <<call, status, pre, repeat>>
    /\ UNCHANGED fetchvars
    /\ UNCHANGED flowvars
    /\ UNCHANGED scrapevars

\* faulty variant: the DELETE of write_to_game_db on another column
write_to_game_db_delete_OnPlayer ==
    /\ call.op = "write_to_game_db" /\ pc = "delete"
    /\ db' = DeleteWhereIn(db, "player_id", call.df)
    /\ pc' = "insert"
    /\ UNCHANGED <<call, status, pre, repeat>>
    /\ UNCHANGED fetchvars
    /\ UNCHANGED flowvars
    /\ UNCHANGED scrapevars

write_to_game_db_delete ==
    /\ call.op = "write_to_game_db" /\ pc = "delete"
    /\ db' = DeleteWhereIn(db, "game_id", call.df)
    /\ pc' = "insert"
    /\ UNCHANGED <<call, status, pre, repeat>>
    /\ UNCHANGED fetchvars
    /\ UNCHANGED flowvars
    /\ UNCHANGED scrapevars

write_to_game_db_insert ==
    /\ call.op = "write_to_game_db" /\ pc = "insert"
    /\ IF InsertBinds(db, call.df)
       THEN /\ db' = InsertAll(db, call.df)
            /\ pc' = "commit"
            /\ UNCHANGED status
       ELSE /\ status' = "SchemaConflict"
            /\ pc' = "done"
            /\ UNCHANGED db
    /\ UNCHANGED <<call, pre, repeat>>
    /\ UNCHANGED fetchvars
    /\ UNCHANGED flowvars
    /\ UNCHANGED scrapevars

write_to_game_db_commit ==
    /\ call.op = "write_to_game_db" /\ pc = "commit"
    /\ status' = "ok"
    /\ pc' = "done"
    /\ UNCHANGED <<db, call, pre, repeat>>
    /\ UNCHANGED fetchvars
    /\ UNCHANGED flowvars
    /\ UNCHANGED scrapevars

(***************************************************************************)
(* insert_into_db(df, table_name).  The create branch returns without a    *)
(* commit; the insert branch commits.                                      *)
(***************************************************************************)
insert_into_db_create ==
    /\ call.op = "insert_into_db" /\ pc = "create"
    /\ db' = CreateTableAs(call.df)
    /\ status' = "ok"
    /\ pc' = "done"
    /\ UNCHANGED <<call, pre, repeat>>
    /\ UNCHANGED fetchvars
    /\ UNCHANGED flowvars
    /\ UNCHANGED scrapevars

insert_into_db_insert ==
    /\ call.op = "insert_into_db" /\ pc = "insert_new"
    /\ IF InsertBinds(db, call.df)
       THEN /\ db' = InsertWhereNotIn(db, call.df)
            /\ pc' = "commit"
            /\ UNCHANGED status
       ELSE /\ status' = "SchemaConflict"
            /\ pc' = "done"
            /\ UNCHANGED db
    /\ UNCHANGED <<call, pre, repeat>>
    /\ UNCHANGED fetchvars
    /\ UNCHANGED flowvars
    /\ UNCHANGED scrapevars

insert_into_db_commit ==
    /\ call.op = "insert_into_db" /\ pc = "commit"
    /\ status' = "ok"
    /\ pc' = "done"
    /\ UNCHANGED <<db, call, pre, repeat>>
    /\ UNCHANGED fetchvars
    /\ UNCHANGED flowvars
    /\ UNCHANGED scrapevars

(***************************************************************************)
(* get_from_db(query) with a SELECT on the table: the rows are read and    *)
(* nothing is written; on a table that does not exist the query raises.    *)
(***************************************************************************)
get_from_db ==
    /\ call.op = "get_from_db" /\ pc = "select"
    /\ status' = IF db.exists THEN "ok" ELSE "CatalogError"
    /\ pc' = "done"
    /\ UNCHANGED <<db, call, pre, repeat>>
    /\ UNCHANGED fetchvars
    /\ UNCHANGED flowvars
    /\ UNCHANGED scrapevars

NextDb ==
    \/ pc = "idle" /\ \E c \in Calls : Connect(c)
    \/ Repeat
    \/ Return
    \/ StoreFails
    \/ write_to_db_create
    \/ write_to_db_delete
    \/ write_to_db_insert
    \/ write_to_db_commit
    \/ write_to_game_db_create
    \/ write_to_game_db_delete
    \/ write_to_game_db_insert
    \/ write_to_game_db_commit
    \/ insert_into_db_create
    \/ insert_into_db_insert
    \/ insert_into_db_commit
    \/ get_from_db

SpecDb == InitDb /\ [][NextDb]_vars

(***************************************************************************)
(* The storage functions called again and again on one table by one job:   *)
(* always the same function with the same key column, each time with a     *)
(* table whose key values are not NULL and pairwise distinct.              *)
(***************************************************************************)
Keyed(c) ==
    /\ c.op \in {"write_to_db", "insert_into_db"}
    /\ \A r \in Rows : c.df.rows[r] <= 1
    /\ \A r \in Rows : c.df.rows[r] > 0 => r[KeyOf(c)] # NULL
    /\ \A r1, r2 \in Rows :
          (c.df.rows[r1] > 0 /\ c.df.rows[r2] > 0 /\ r1 # r2) =>
              r1[KeyOf(c)] # r2[KeyOf(c)]

KeyedCalls ==
    {c \in [op : {"write_to_db", "insert_into_db"}, id_field : IdFields,
            df : [schema : Schemas, rows : [Rows -> 0..1]]] :
        /\ c.op # "write_to_db" => c.id_field = "game_id"
        /\ RowCount(c.df.rows) <= MaxDfRows
        /\ Keyed(c)}

\* the job's next call, after one that returned or raised
NextKeyedCall(c) ==
    /\ pc = "done"
    /\ c.op = call.op /\ c.id_field = call.id_field
    /\ WithinBounds(db, c)
    /\ call' = c
    /\ pre' = db
    /\ repeat' = "no"
    /\ status' = "running"
    /\ pc' = Branch(c)
    /\ UNCHANGED db
    /\ UNCHANGED fetchvars
    /\ UNCHANGED flowvars
    /\ UNCHANGED scrapevars

NextKeyed ==
    \/ pc = "idle" /\ \E c \in KeyedCalls : Connect(c)
    \/ pc = "done" /\ \E c \in KeyedCalls : NextKeyedCall(c)
    \/ StoreFails
    \/ write_to_db_create
    \/ write_to_db_delete
    \/ write_to_db_insert
    \/ write_to_db_commit
    \/ insert_into_db_create
    \/ insert_into_db_insert
    \/ insert_into_db_commit

SpecKeyed == InitDb /\ [][NextKeyed]_vars

(***************************************************************************)
(* players.py: the bounded fetch orchestrators.                            *)
(*   "gamelogs"  get_multiple_player_gamelogs_async                        *)
(*   "stats"     get_player_stats_async                                    *)
(* Both create one fetch_with_semaphore coroutine per player, run them     *)
(* under asyncio.gather(return_exceptions=True) and then combine the       *)
(* results in one synchronous loop.  A task waits for the semaphore,       *)
(* fetches while it holds a slot, and releases the slot as it finishes     *)
(* (async with), by return or by exception.                                *)
(***************************************************************************)
PrintedWidth == 19

\* what the remote source does for one player's request
GamelogResponses ==
    {"events",        \* a payload with events
     "events18",      \* a payload with events and two columns fewer
     "events19",      \* a payload whose dataframe has 19 columns
     "no_events",     \* a payload without events
     "malformed",     \* a payload that raises KeyError or IndexError
     "client_error",  \* aiohttp.ClientError: connection or HTTP status
     "timeout"}       \* asyncio.TimeoutError, or any exception not caught
StatsResponses ==
    {"categories",    \* a payload with a Rushing and a Receiving category
     "categories_wide", \* the same, each category with one more stat name
     "error"}         \* any exception: caught by except Exception
Positions == {"QB", "RB", "K"}
rushing_positions == {"RB", "QB", "WR", "TE"}
receiving_positions == {"WR", "TE", "RB"}

Responses(f) == IF f = "gamelogs" THEN GamelogResponses ELSE StatsResponses

NoValue == [kind |-> "none", player |-> 0, width |-> 0,
            rushing |-> FALSE, receiving |-> FALSE]
\* pl.DataFrame()
EmptyDataFrame == [NoValue EXCEPT !.kind = "df"]
is_empty(v) == v.width = 0

\* what awaiting get_player_gamelog_async(player_id, player_name) gives
get_player_gamelog_async(p, r) ==
    CASE r = "events" ->
            [NoValue EXCEPT !.kind = "df", !.player = p.id, !.width = PrintedWidth + 1]
      [] r = "events18" ->
            [NoValue EXCEPT !.kind = "df", !.player = p.id, !.width = PrintedWidth - 1]
      [] r = "events19" ->
            [NoValue EXCEPT !.kind = "df", !.player = p.id, !.width = PrintedWidth]
      [] r = "no_events" -> EmptyDataFrame
      [] r \in {"malformed", "client_error"} -> EmptyDataFrame
      [] r = "timeout" -> [NoValue EXCEPT !.kind = "exception"]

\* the errors get_player_gamelog_async logs itself
gamelog_logs(r) == r \in {"malformed", "client_error"}

\* faulty variant: a player classified into one group only, rushing first
fetch_player_stats_OneGroup(p, r) ==
    IF r \in {"categories", "categories_wide"}
    THEN [NoValue EXCEPT !.kind = "lists", !.player = p.id,
                         !.width = IF r = "categories" THEN 1 ELSE 2,
                         !.rushing = p.position \in rushing_positions,
                         !.receiving = /\ p.position \in receiving_positions
                                       /\ p.position \notin rushing_positions]
    ELSE [NoValue EXCEPT !.kind = "lists", !.player = p.id]

\* what awaiting fetch_player_stats(session, player_id, player_data) gives:
\* the pair (player_rushing, player_receiving)
\* (width: the number of columns of each dataframe get_stats builds, one per
\* stat name of the category)
fetch_player_stats(p, r) ==
    IF r \in {"categories", "categories_wide"}
    THEN [NoValue EXCEPT !.kind = "lists", !.player = p.id,
                         !.width = IF r = "categories" THEN 1 ELSE 2,
                         !.rushing = p.position \in rushing_positions,
                         !.receiving = p.position \in receiving_positions]
    ELSE [NoValue EXCEPT !.kind = "lists", !.player = p.id]

Fetch(f, p, r) ==
    IF f = "gamelogs" THEN get_player_gamelog_async(p, r)
    ELSE fetch_player_stats(p, r)

FetchLogs(f, r) == IF f = "gamelogs" THEN gamelog_logs(r) ELSE r = "error"

\* faulty variant: no early return for an empty list
EmptyInput_Never(ids) == FALSE

\* get_multiple_player_gamelogs_async: if not player_ids
EmptyInput(ids) == ids = <<>>

\* faulty variant: a slot that is never given back
Released_Never(v) == FALSE

\* faulty variant: the slot released by hand after the await, which an
\* exception skips
Released_OnReturnOnly(v) == v.kind # "exception"

\* async with semaphore: the slot is released when the block is left, by
\* return or by exception
Released(v) == TRUE

\* faulty variant: a semaphore that never makes a task wait
CanAcquire_Always(value) == TRUE

\* asyncio.Semaphore: async with semaphore enters when the value is positive
CanAcquire(value) == value > 0

\* faulty variant: results collected in the order the tasks finish
GatherSlot_CompletionOrder(i, finished) == finished + 1

\* asyncio.gather: the result of the i-th awaitable is the i-th result
GatherSlot(i, finished) == i

\* faulty variant: asyncio.gather(*tasks)
return_exceptions_Default == FALSE

\* asyncio.gather(*tasks, return_exceptions=True)
return_exceptions == TRUE

N == Len(player_ids)
Finished == {i \in 1..N : task[i] = "done"}
InFlight == {i \in 1..N : task[i] = "fetching"}

\* the state of the store while the orchestrator is exercised
DbIdle ==
    /\ db = Absent
    /\ call = NoCall
    /\ pc = "idle"
    /\ status = "none"
    /\ pre = Absent
    /\ repeat = "no"

InitFetch ==
    /\ fn \in {"gamelogs", "stats"}
    /\ \E n \in 0..MaxPlayers :
          /\ player_ids \in
                [1..n -> [id : 11..(10 + MaxPlayers),
                          position : IF fn = "stats" THEN Positions ELSE {"none"}]]
          /\ \A i \in 1..n : player_ids[i].id = 10 + i
          /\ response \in [1..n -> Responses(fn)]
          /\ task = [i \in 1..n |-> "new"]
    /\ max_concurrent \in 1..MaxConcurrent
    /\ semaphore = 0
    /\ results = <<>>
    /\ fpc = "called"
    /\ valid_dataframes = <<>>
    /\ rushing_data = <<>>
    /\ receiving_data = <<>>
    /\ log = {}
    /\ DbIdle
    /\ PipelineIdle
    /\ OddsIdle
    /\ ScrapeIdle

\* get_multiple_player_gamelogs_async: if not player_ids: return pl.DataFrame()
ReturnEmpty ==
    /\ fpc = "called" /\ fn = "gamelogs" /\ EmptyInput(player_ids)
    /\ fpc' = "returned"
    /\ UNCHANGED <<fn, player_ids, max_concurrent, response, task, semaphore,
                   results, valid_dataframes, rushing_data, receiving_data, log>>
    /\ UNCHANGED dbvars
    /\ UNCHANGED flowvars
    /\ UNCHANGED scrapevars

\* the semaphore, the coroutines and the call of asyncio.gather, which wraps
\* each coroutine in a task
CreateTasks ==
    /\ fpc = "called" /\ ~(fn = "gamelogs" /\ EmptyInput(player_ids))
    /\ semaphore' = max_concurrent
    /\ task' = [i \in 1..N |-> "waiting"]
    /\ results' = [i \in 1..N |-> [of |-> 0, value |-> NoValue]]
    /\ fpc' = "gather"
    /\ UNCHANGED <<fn, player_ids, max_concurrent, response, valid_dataframes,
                   rushing_data, receiving_data, log>>
    /\ UNCHANGED dbvars
    /\ UNCHANGED flowvars
    /\ UNCHANGED scrapevars

\* fetch_with_semaphore: async with semaphore
Acquire(i) ==
    /\ fpc = "gather" /\ task[i] = "waiting"
    /\ CanAcquire(semaphore)
    /\ semaphore' = semaphore - 1
    /\ task' = [task EXCEPT ![i] = "fetching"]
    /\ UNCHANGED <<fn, player_ids, max_concurrent, response, results, fpc,
                   valid_dataframes, rushing_data, receiving_data, log>>
    /\ UNCHANGED dbvars
    /\ UNCHANGED flowvars
    /\ UNCHANGED scrapevars

\* fetch_with_semaphore: the awaited fetch returns or raises, the slot is
\* released, and gather receives the task's result or, with
\* return_exceptions, its exception.  Without return_exceptions the first
\* exception leaves gather at once and asyncio.run cancels the other tasks.
Finish(i) ==
    /\ fpc = "gather" /\ task[i] = "fetching"
    /\ LET v == Fetch(fn, player_ids[i], response[i])
       IN  /\ semaphore' = IF Released(v) THEN semaphore + 1 ELSE semaphore
           /\ log' = IF FetchLogs(fn, response[i]) THEN log \cup {i} ELSE log
           /\ IF v.kind = "exception" /\ ~return_exceptions
              THEN /\ fpc' = "raised"
                   /\ task' = [j \in 1..N |->
                                IF j = i THEN "done"
                                ELSE IF task[j] = "done" THEN "done"
                                ELSE "cancelled"]
                   /\ UNCHANGED results
              ELSE /\ results' =
                        [results EXCEPT ![GatherSlot(i, Cardinality(Finished))] =
                            [of |-> i, value |-> v]]
                   /\ task' = [task EXCEPT ![i] = "done"]
                   /\ UNCHANGED fpc
    /\ UNCHANGED <<fn, player_ids, max_concurrent, response, valid_dataframes,
                   rushing_data, receiving_data>>
    /\ UNCHANGED dbvars
    /\ UNCHANGED flowvars
    /\ UNCHANGED scrapevars

\* faulty variant: each kept item put in front of the list (insert(0, ...))
Kept_Reversed(keep) ==
    LET idx == SelectSeq([i \in 1..Len(results) |-> i], LAMBDA i : keep[i])
    IN  [k \in 1..Len(idx) |-> results[idx[Len(idx) + 1 - k]].value.player]

\* the players of the results that keep[i] selects, in the order of results
Kept(keep) ==
    LET idx == SelectSeq([i \in 1..Len(results) |-> i], LAMBDA i : keep[i])
    IN  [k \in 1..Len(idx) |-> results[idx[k]].value.player]

IsException(e) == e.value.kind = "exception"

\* faulty variant: the loop without its elif not result.is_empty() test
IsValidDataframe_KeepEmpty(e) ==
    /\ ~IsException(e)
    /\ e.value.width # PrintedWidth

\* elif not result.is_empty(): if result.width == 19: print(result)
\*                             else: valid_dataframes.append(result)
IsValidDataframe(e) ==
    /\ ~IsException(e)
    /\ ~is_empty(e.value)
    /\ e.value.width # PrintedWidth
HasRushing(e) == ~IsException(e) /\ e.value.rushing
HasReceiving(e) == ~IsException(e) /\ e.value.receiving

\* pl.concat(items), how="vertical" by default: the dataframes are stacked,
\* which polars refuses (ShapeError) unless they have the same columns
concat_raises(keep) ==
    \E i, j \in 1..N :
        keep[i] /\ keep[j] /\ results[i].value.width # results[j].value.width

\* get_multiple_player_gamelogs_async: gather returns the results, the loop
\* logs the exceptions and keeps the valid dataframes, and the function
\* returns their concatenation, or pl.concat raises ("concat_error")
CombineGamelogs ==
    /\ fpc = "gather" /\ fn = "gamelogs" /\ Finished = 1..N
    /\ valid_dataframes' = Kept([i \in 1..N |-> IsValidDataframe(results[i])])
    /\ log' = log \cup {i \in 1..N : IsException(results[i])}
    /\ fpc' = IF concat_raises([i \in 1..N |-> IsValidDataframe(results[i])])
              THEN "concat_error" ELSE "returned"
    /\ UNCHANGED <<fn, player_ids, max_concurrent, response, task, semaphore,
                   results, rushing_data, receiving_data>>
    /\ UNCHANGED dbvars
    /\ UNCHANGED flowvars
    /\ UNCHANGED scrapevars

\* get_player_stats_async: gather returns the results, the loop logs the
\* exceptions and extends rushing_data and receiving_data, and the function
\* returns the two concatenations
CombineStats ==
    /\ fpc = "gather" /\ fn = "stats" /\ Finished = 1..N
    /\ rushing_data' = Kept([i \in 1..N |-> HasRushing(results[i])])
    /\ receiving_data' = Kept([i \in 1..N |-> HasReceiving(results[i])])
    /\ log' = log \cup {i \in 1..N : IsException(results[i])}
    /\ fpc' = IF \/ concat_raises([i \in 1..N |-> HasRushing(results[i])])
                 \/ concat_raises([i \in 1..N |-> HasReceiving(results[i])])
              THEN "concat_error" ELSE "returned"
    /\ UNCHANGED <<fn, player_ids, max_concurrent, response, task, semaphore,
                   results, valid_dataframes>>
    /\ UNCHANGED dbvars
    /\ UNCHANGED flowvars
    /\ UNCHANGED scrapevars

NextFetch ==
    \/ ReturnEmpty
    \/ CreateTasks
    \/ \E i \in 1..N : Acquire(i)
    \/ \E i \in 1..N : Finish(i)
    \/ CombineGamelogs
    \/ CombineStats

SpecFetch == InitFetch /\ [][NextFetch]_vars

(***************************************************************************)
(* pipeline.py: the two data pipelines.  A flow function calls its tasks   *)
(* one after the other, with no try/except and without return_state or     *)
(* submit: a task call that fails raises the task's exception in the flow  *)
(* function, which ends the flow run as failed.  A task makes its writes   *)
(* one after the other through database.py; a write to a store that cannot *)
(* be reached raises.                                                      *)
(***************************************************************************)
player_data_pipeline ==
    <<"populate_roster", "populate_game_events", "populate_player_snap_counts",
      "populate_player_gamelog", "populate_passing_heat_map">>
team_data_pipeline ==
    <<"populate_team_stats", "populate_team_advanced_offense_stats",
      "sharp_defense_stats", "summer_advanced_stats">>

Tasks(f) ==
    IF f = "player_data_pipeline" THEN player_data_pipeline
    ELSE team_data_pipeline

\* populate_game_events: for year in range(2021, 2026)
FirstYear == 2021
LastYear == 2025

\* the writes a task makes when nothing fails
Writes(t) ==
    CASE t = "populate_roster" -> team_dict
      [] t = "populate_game_events" -> LastYear - FirstYear + 1
      [] t = "populate_player_snap_counts" -> 1
      [] t = "populate_player_gamelog" -> 0
      [] t = "populate_passing_heat_map" -> 1
      [] t = "populate_team_stats" -> categories
      [] t = "populate_team_advanced_offense_stats" -> 1
      [] t = "sharp_defense_stats" -> 1
      [] t = "summer_advanced_stats" -> 2

\* def get_multiple_player_gamelogs_sync(player_ids, max_concurrent=50)
sync_parameters == {"player_ids", "max_concurrent"}
\* players.get_multiple_player_gamelogs_sync(all_players, season=season)
sync_keywords == {"season"}

\* populate_player_gamelog calls the orchestrator with a keyword it does not
\* have: TypeError at the call, before any fetch and any write
RaisesTypeError(t) ==
    t = "populate_player_gamelog" /\ ~(sync_keywords \subseteq sync_parameters)

Running == flow_state = "running" /\ step <= Len(Tasks(flow))
ThisTask == Tasks(flow)[step]

InitPipeline ==
    /\ flow \in {"player_data_pipeline", "team_data_pipeline"}
    /\ team_dict \in 0..MaxTeams
    /\ categories \in 0..MaxCategories
    /\ flow = "player_data_pipeline" => categories = 0
    /\ flow = "team_data_pipeline" => team_dict = 0
    /\ step = 1
    /\ unit = 0
    /\ task_state = [k \in 1..Len(Tasks(flow)) |-> "pending"]
    /\ flow_state = "running"
    /\ cause = "none"
    /\ DbIdle
    /\ FetchIdle
    /\ OddsIdle
    /\ ScrapeIdle

\* the flow function calls its next task
TaskStarts ==
    /\ Running /\ task_state[step] = "pending"
    /\ task_state' = [task_state EXCEPT ![step] = "running"]
    /\ UNCHANGED <<flow, team_dict, categories, step, unit, flow_state, cause>>
    /\ UNCHANGED <<dbvars, fetchvars, oddsvars, scrapevars>>

\* the task's next database.write_to_db / write_to_game_db call returns
TaskWrites ==
    /\ Running /\ task_state[step] = "running"
    /\ ~RaisesTypeError(ThisTask) /\ unit < Writes(ThisTask)
    /\ unit' = unit + 1
    /\ UNCHANGED <<flow, team_dict, categories, step, task_state, flow_state,
                   cause>>
    /\ UNCHANGED <<dbvars, fetchvars, oddsvars, scrapevars>>

\* the task's next write raises a store-level error: the task's loop and the
\* task end there, and the exception ends the flow function
WriteRaises ==
    /\ Running /\ task_state[step] = "running"
    /\ ~RaisesTypeError(ThisTask) /\ unit < Writes(ThisTask)
    /\ task_state' = [task_state EXCEPT ![step] = "failed"]
    /\ flow_state' = "failed"
    /\ cause' = "store"
    /\ UNCHANGED <<flow, team_dict, categories, step, unit>>
    /\ UNCHANGED <<dbvars, fetchvars, oddsvars, scrapevars>>

\* populate_player_gamelog raises its TypeError
populate_player_gamelog ==
    /\ Running /\ task_state[step] = "running"
    /\ RaisesTypeError(ThisTask)
    /\ task_state' = [task_state EXCEPT ![step] = "failed"]
    /\ flow_state' = "failed"
    /\ cause' = "TypeError"
    /\ UNCHANGED <<flow, team_dict, categories, step, unit>>
    /\ UNCHANGED <<dbvars, fetchvars, oddsvars, scrapevars>>

\* the task has made all its writes and returns; the flow goes on
TaskReturns ==
    /\ Running /\ task_state[step] = "running"
    /\ ~RaisesTypeError(ThisTask) /\ unit = Writes(ThisTask)
    /\ task_state' = [task_state EXCEPT ![step] = "completed"]
    /\ step' = step + 1
    /\ unit' = 0
    /\ UNCHANGED <<flow, team_dict, categories, flow_state, cause>>
    /\ UNCHANGED <<dbvars, fetchvars, oddsvars, scrapevars>>

\* the flow function returns after its last task
FlowReturns ==
    /\ flow_state = "running" /\ step = Len(Tasks(flow)) + 1
    /\ flow_state' = "completed"
    /\ UNCHANGED <<flow, team_dict, categories, step, unit, task_state, cause>>
    /\ UNCHANGED <<dbvars, fetchvars, oddsvars, scrapevars>>

NextPipeline ==
    \/ TaskStarts
    \/ TaskWrites
    \/ WriteRaises
    \/ populate_player_gamelog
    \/ TaskReturns
    \/ FlowReturns

SpecPipeline == InitPipeline /\ [][NextPipeline]_vars

(***************************************************************************)
(* pipeline.py: get_prop_odds, run twice over the same events and markets  *)
(* with the same answers of the odds API.  games[k] is the answer for the  *)
(* k-th (event, market) pair of the two nested loops; an answer with odds  *)
(* gives the same records in both runs, and nfl_prop_odds.rows[k] counts   *)
(* how many times the table holds the records of the k-th pair.            *)
(***************************************************************************)
OddsResponses ==
    {"odds",           \* bookmakers with outcomes
     "no_odds",        \* no bookmaker: list_of_players stays empty
     "request_error",  \* requests.get(...).json() raises
     "no_bookmakers"}  \* a payload without the key "bookmakers": KeyError

NoTable == [exists |-> FALSE, rows |-> <<>>]

InitOdds ==
    /\ \E n \in 1..MaxRequests :
          /\ games \in [1..n -> OddsResponses]
          /\ nfl_prop_odds \in {NoTable, [exists |-> TRUE, rows |-> [k \in 1..n |-> 0]]}
    /\ run = 1
    /\ position = 0
    /\ table_exists = FALSE
    /\ odds_state = "called"
    /\ first_run = <<>>
    /\ DbIdle
    /\ FetchIdle
    /\ PipelineIdle
    /\ ScrapeIdle

\* get_events, duckdb.connect and the information_schema query
get_prop_odds ==
    /\ odds_state = "called"
    /\ table_exists' = nfl_prop_odds.exists
    /\ position' = 1
    /\ odds_state' = "running"
    /\ UNCHANGED <<games, run, nfl_prop_odds, first_run>>
    /\ UNCHANGED <<dbvars, fetchvars, pipevars, scrapevars>>

InLoop == odds_state = "running" /\ position <= Len(games)

\* except Exception: continue, and if not list_of_players: continue
OddsContinue ==
    /\ InLoop /\ games[position] \in {"request_error", "no_odds"}
    /\ position' = position + 1
    /\ UNCHANGED <<games, run, table_exists, nfl_prop_odds, odds_state, first_run>>
    /\ UNCHANGED <<dbvars, fetchvars, pipevars, scrapevars>>

\* games["bookmakers"], outside the try, raises KeyError
OddsKeyError ==
    /\ InLoop /\ games[position] = "no_bookmakers"
    /\ odds_state' = "failed"
    /\ UNCHANGED <<games, run, position, table_exists, nfl_prop_odds, first_run>>
    /\ UNCHANGED <<dbvars, fetchvars, pipevars, scrapevars>>

\* CREATE TABLE nfl_prop_odds AS SELECT * FROM odds_df; conn.commit()
OddsCreate ==
    /\ InLoop /\ games[position] = "odds" /\ ~table_exists
    /\ nfl_prop_odds' =
          [exists |-> TRUE,
           rows |-> [k \in 1..Len(games) |-> IF k = position THEN 1 ELSE 0]]
    /\ table_exists' = TRUE
    /\ position' = position + 1
    /\ UNCHANGED <<games, run, odds_state, first_run>>
    /\ UNCHANGED <<dbvars, fetchvars, pipevars, scrapevars>>

\* INSERT INTO nfl_prop_odds SELECT n.* FROM new_odds n; conn.commit()
OddsInsert ==
    /\ InLoop /\ games[position] = "odds" /\ table_exists
    /\ nfl_prop_odds' =
          [nfl_prop_odds EXCEPT !.rows[position] = @ + 1]
    /\ position' = position + 1
    /\ UNCHANGED <<games, run, table_exists, odds_state, first_run>>
    /\ UNCHANGED <<dbvars, fetchvars, pipevars, scrapevars>>

\* the loops are over and the flow returns
OddsReturn ==
    /\ odds_state = "running" /\ position = Len(games) + 1
    /\ odds_state' = "completed"
    /\ UNCHANGED <<games, run, position, table_exists, nfl_prop_odds, first_run>>
    /\ UNCHANGED <<dbvars, fetchvars, pipevars, scrapevars>>

\* the schedule runs the flow again; the odds API answers as before
OddsRunAgain ==
    /\ run = 1 /\ odds_state \in {"completed", "failed"}
    /\ run' = 2
    /\ first_run' = nfl_prop_odds.rows
    /\ odds_state' = "called"
    /\ position' = 0
    /\ UNCHANGED <<games, table_exists, nfl_prop_odds>>
    /\ UNCHANGED <<dbvars, fetchvars, pipevars, scrapevars>>

NextOdds ==
    \/ get_prop_odds
    \/ OddsContinue
    \/ OddsKeyError
    \/ OddsCreate
    \/ OddsInsert
    \/ OddsReturn
    \/ OddsRunAgain

SpecOdds == InitOdds /\ [][NextOdds]_vars

(***************************************************************************)
(* scraping.py: PlaywrightScraper.  scrape_url tries a URL up to           *)
(* max_retries times; an attempt loads the page and parses its tables      *)
(* inside a try block, which also holds context.close() and the break.     *)
(* scrape_multiple_urls calls scrape_url for each URL of its list.         *)
(* teams.sumer_advanced_stats scrapes two pages and indexes the list of    *)
(* the dataframes scraped successfully.  A dataframe is named after the    *)
(* page it was parsed from.                                                *)
(***************************************************************************)
DefaultMaxRetries == 3

\* what an attempt meets: an exception before the tables are parsed (page
\* load, timeout, pd.read_html), or a list of tables of some length
PageOutcomes == {"raises", "tables0", "tables1", "tables2"}
len_tables(o) ==
    CASE o = "tables0" -> 0 [] o = "tables1" -> 1 [] o = "tables2" -> 2
      [] OTHER -> 0

sumer_urls == <<"sumersports.com/teams/defensive/",
                "sumersports.com/teams/offensive/">>
sharp_urls == <<"nfl-defensive-stats", "nfl-defensive-line-stats",
                "nfl-defensive-tendencies", "nfl-coverage-schemes">>

\* sumer_advanced_stats: defense_df = dataframes[0], offense_df = dataframes[1]
defense_index == 0
offense_index == 1

NotReturned == [status |-> "none", defense |-> "None", offense |-> "None"]

InitScrape ==
    /\ caller \in {"scrape_url", "sumer_advanced_stats", "sharp_defense_stats"}
    /\ urls = CASE caller = "scrape_url" -> <<"page">>
                [] caller = "sumer_advanced_stats" -> sumer_urls
                [] caller = "sharp_defense_stats" -> sharp_urls
    /\ IF caller = "scrape_url"
       THEN table_index \in 0..1 /\ max_retries \in 0..MaxRetries
       ELSE table_index = 0 /\ max_retries = DefaultMaxRetries
    /\ url_index = 1
    /\ attempt = 0
    /\ spc = "loop"
    /\ result = ScrapingResult(urls[1])
    /\ scrape_results = <<>>
    /\ produced = FALSE
    /\ returned = NotReturned
    /\ DbIdle
    /\ FetchIdle
    /\ PipelineIdle
    /\ OddsIdle

\* scrape_url: the next attempt, from the new context to the parsed tables
Attempt(o) ==
    /\ spc = "loop" /\ attempt < max_retries
    /\ attempt' = attempt + 1
    /\ IF o = "raises"
       THEN /\ result' = [result EXCEPT !.error = "exception"]
            /\ spc' = "loop"
            /\ UNCHANGED produced
       ELSE IF len_tables(o) = 0
       THEN /\ result' = [result EXCEPT !.error = "No tables found"]
            /\ spc' = "close"
            /\ UNCHANGED produced
       ELSE IF table_index < len_tables(o)
       THEN /\ result' = [result EXCEPT !.tables_found = len_tables(o),
                                        !.dataframe = result.url,
                                        !.success = TRUE]
            /\ spc' = "close"
            /\ produced' = TRUE
       ELSE /\ result' = [result EXCEPT !.tables_found = len_tables(o),
                                        !.error = "Table index not found"]
            /\ spc' = "close"
            /\ UNCHANGED produced
    /\ UNCHANGED <<caller, urls, table_index, max_retries, url_index,
                   scrape_results, returned>>
    /\ UNCHANGED <<dbvars, fetchvars, pipevars, oddsvars>>

\* scrape_url: context.close() returns; if result.success: break
Close ==
    /\ spc = "close"
    /\ spc' = IF result.success THEN "break" ELSE "loop"
    /\ UNCHANGED <<caller, urls, table_index, max_retries, url_index, attempt,
                   result, scrape_results, produced, returned>>
    /\ UNCHANGED <<dbvars, fetchvars, pipevars, oddsvars>>

\* scrape_url: context.close() raises (the browser is gone): the except
\* block records the error and the loop goes on
CloseRaises ==
    /\ spc = "close"
    /\ result' = [result EXCEPT !.error = "exception"]
    /\ spc' = "loop"
    /\ UNCHANGED <<caller, urls, table_index, max_retries, url_index, attempt,
                   scrape_results, produced, returned>>
    /\ UNCHANGED <<dbvars, fetchvars, pipevars, oddsvars>>

\* faulty variant: only the successful results are collected
Collect_SuccessOnly(rs, r) == IF r.success THEN Append(rs, r) ELSE rs

\* scrape_multiple_urls: results.append(result)
Collect(rs, r) == Append(rs, r)

\* scrape_url returns its result, after the break or after the last
\* attempt; scrape_multiple_urls appends it and goes to its next URL, or
\* returns the list after the last one
ScrapeUrlReturns ==
    /\ spc = "break" \/ (spc = "loop" /\ attempt = max_retries)
    /\ scrape_results' = Collect(scrape_results, result)
    /\ IF url_index < Len(urls)
       THEN /\ url_index' = url_index + 1
            /\ result' = ScrapingResult(urls[url_index + 1])
            /\ attempt' = 0
            /\ produced' = FALSE
            /\ spc' = "loop"
       ELSE /\ spc' = "done"
            /\ UNCHANGED <<url_index, result, attempt, produced>>
    /\ UNCHANGED <<caller, urls, table_index, max_retries, returned>>
    /\ UNCHANGED <<dbvars, fetchvars, pipevars, oddsvars>>

\* faulty variant: a dataframe taken from every result
dataframes_OfAll(rs) == [k \in 1..Len(rs) |-> rs[k].dataframe]

\* for result in results: if result.success: dataframes.append(df)
dataframes(rs) ==
    LET ok == SelectSeq(rs, LAMBDA r : r.success)
    IN  [k \in 1..Len(ok) |-> ok[k].dataframe]

\* get_failed_urls: [r.url for r in results if not r.success]
get_failed_urls(rs) ==
    LET failed == SelectSeq(rs, LAMBDA r : ~r.success)
    IN  [k \in 1..Len(failed) |-> failed[k].url]

\* sumer_advanced_stats, after scrape_multiple_urls: dataframes[0] and
\* dataframes[1] raise IndexError when the list is too short
sumer_advanced_stats ==
    /\ spc = "done" /\ caller = "sumer_advanced_stats"
    /\ LET dfs == dataframes(scrape_results)
       IN  returned' =
              IF defense_index < Len(dfs) /\ offense_index < Len(dfs)
              THEN [status |-> "returned",
                    defense |-> dfs[defense_index + 1],
                    offense |-> dfs[offense_index + 1]]
              ELSE [NotReturned EXCEPT !.status = "IndexError"]
    /\ spc' = "returned"
    /\ UNCHANGED <<caller, urls, table_index, max_retries, url_index, attempt,
                   result, scrape_results, produced>>
    /\ UNCHANGED <<dbvars, fetchvars, pipevars, oddsvars>>

NextScrape ==
    \/ \E o \in PageOutcomes : Attempt(o)
    \/ Close
    \/ CloseRaises
    \/ ScrapeUrlReturns
    \/ sumer_advanced_stats

SpecScrape == InitScrape /\ [][NextScrape]_vars

(***************************************************************************)
(* The storage engine's claims.  A call is over when pc = "done"; pre is   *)
(* the table it found, db the table it left, call.df the incoming table.   *)
(***************************************************************************)
Returned(op) == pc = "done" /\ status = "ok" /\ call.op = op
Raised == pc = "done" /\ status \in {"ConnectionError", "SchemaConflict"}
HasNullKey(rows) == \E r \in Rows : r.game_id = NULL /\ rows[r] > 0

\* the rows of t whose key value does not occur among the key values of d
RowsKeyNotIn(t, col, d) ==
    [r \in Rows |-> IF r[col] \in Column(d, col) THEN 0 ELSE t[r]]

\* C1 (as claimed): a second write_to_db call with the same df, right after
\* the first, leaves the destination exactly as the first call left it
\* (same rows, same row count).
C1_ReplaceIdempotent ==
    (Returned("write_to_db") /\ repeat # "no") =>
        /\ db.rows = pre.rows
        /\ RowCount(db.rows) = RowCount(pre.rows)

\* C2 (as claimed): on an existing destination, write_to_db leaves exactly
\* the previous rows whose key value does not appear in df, plus all rows
\* of df.
C2_ReplaceResult ==
    (Returned("write_to_db") /\ pre.exists) =>
        db.rows = Plus(RowsKeyNotIn(pre.rows, call.id_field, call.df.rows),
                       call.df.rows)

\* C3: a second insert_into_db call with the same df, right after the
\* first, adds no row: every row's multiplicity and the row count are those
\* the first call left, whether the first call created the table or not.
C3_AppendTwiceNoDuplicates ==
    (Returned("insert_into_db") /\ repeat # "no") =>
        /\ db.rows = pre.rows
        /\ RowCount(db.rows) = RowCount(pre.rows)

\* C3's case: the first call created the table from a two-row df with a
\* NULL game_id, and the second call has returned.
C3_Witness ==
    /\ Returned("insert_into_db") /\ repeat = "after_create"
    /\ RowCount(call.df.rows) = 2
    /\ HasNullKey(call.df.rows)

\* C4 (as claimed): on an existing destination, insert_into_db inserts
\* exactly the incoming rows whose game_id is not already present in the
\* destination, and every row present before the call is still present.
C4_AppendOnlyNew ==
    (Returned("insert_into_db") /\ pre.exists) =>
        /\ db.rows = Plus(pre.rows,
                          RowsKeyNotIn(call.df.rows, "game_id", pre.rows))
        /\ \A r \in Rows : db.rows[r] >= pre.rows[r]

\* C5: when the destination does not exist, each of the three functions
\* creates it with exactly the rows (and the columns) of the incoming table.
C5_FirstWriteCreates ==
    (pc = "done" /\ status = "ok" /\ ~pre.exists) =>
        /\ db.exists
        /\ db.rows = call.df.rows
        /\ db.schema = call.df.schema
        /\ RowCount(db.rows) = RowCount(call.df.rows)

\* C5's case: insert_into_db has created the table from a two-row df one of
\* whose game_id values is NULL.
C5_Witness ==
    /\ Returned("insert_into_db") /\ ~pre.exists
    /\ RowCount(call.df.rows) = 2
    /\ HasNullKey(call.df.rows)

\* C6 (as claimed): a write_to_db / write_to_game_db call on an existing
\* table that fails at any point leaves the table in its pre-call state.
C6_AtomicReplace ==
    (Raised /\ call.op \in {"write_to_db", "write_to_game_db"} /\ pre.exists) =>
        db = pre

\* C7 (as claimed): when the INSERT of write_to_db is rejected for
\* incompatible columns, the error reaches the caller and the destination
\* holds exactly the rows it held before the call.
C7_SchemaConflictUntouched ==
    (pc = "done" /\ call.op = "write_to_db" /\ pre.exists
        /\ ~InsertBinds(pre, call.df) /\ status # "ConnectionError") =>
        /\ status = "SchemaConflict"
        /\ db.rows = pre.rows

(***************************************************************************)
(* The orchestrator's claims.                                              *)
(***************************************************************************)
Over == fpc \in {"returned", "raised", "concat_error"}
Failing(r) == r \in {"timeout", "malformed", "client_error"}

\* C8: when get_multiple_player_gamelogs_async is over it has obtained
\* exactly N outcomes, the i-th being the outcome of the i-th player's
\* fetch (a dataframe with rows carries that player's id), and no player is
\* left without one, whatever the players' fetches did.
C8_OneOutcomePerPlayer ==
    (fn = "gamelogs" /\ Over) =>
        /\ Len(results) = N
        /\ \A i \in 1..N :
              /\ results[i].of = i
              /\ results[i].value.kind \in {"df", "exception"}
              /\ (results[i].value.kind = "df" /\ ~is_empty(results[i].value))
                    => results[i].value.player = player_ids[i].id

\* C8's case: three or more players whose fetches end in data, a caught
\* error and an uncaught exception, and the function has returned.
C8_Witness ==
    /\ fn = "gamelogs" /\ fpc = "returned" /\ N >= 3
    /\ {"events", "malformed", "timeout"} \subseteq {response[i] : i \in 1..N}

\* C9: at every moment of either orchestrator, the number of fetches in
\* flight (slot acquired, fetch not finished) is at most max_concurrent.
C9_ConcurrencyCeiling ==
    Cardinality(InFlight) <= max_concurrent

\* C9's case: get_player_stats_async with every slot taken by a fetch in
\* flight while another task waits for a slot.
C9_Witness ==
    /\ fn = "stats" /\ max_concurrent >= 2
    /\ Cardinality(InFlight) = max_concurrent
    /\ \E i \in 1..N : task[i] = "waiting"

\* C10: when a player's fetch raises, times out or gets a malformed
\* payload, every other player's fetch has still run to its end (started,
\* not cancelled) and its outcome is the one its own response determines;
\* a player whose fetch did not fail has no failure outcome and no error
\* logged.
C10_FailureIsolation ==
    (fn = "gamelogs" /\ Over) =>
        \A i \in 1..N : Failing(response[i]) =>
            \A j \in (1..N) \ {i} :
                /\ task[j] = "done"
                /\ results[j].of = j
                /\ results[j].value =
                        get_player_gamelog_async(player_ids[j], response[j])
                /\ ~Failing(response[j]) =>
                        (results[j].value.kind = "df" /\ j \notin log)

\* C10's case: one slot, the first player times out, the second has data,
\* the third a malformed payload; the function returned the second player's
\* dataframe alone.
C10_Witness ==
    /\ fn = "gamelogs" /\ fpc = "returned" /\ N >= 3 /\ max_concurrent = 1
    /\ response[1] = "timeout" /\ response[2] = "events"
    /\ response[3] = "malformed"
    /\ valid_dataframes = <<player_ids[2].id>>
    /\ log = {1, 3}

\* a fetch that fails: by an exception that get_player_gamelog_async or
\* fetch_player_stats catches, or by one that reaches gather
FetchFails(f, r) == IF f = "gamelogs" THEN Failing(r) ELSE r = "error"
Failed == {i \in 1..N : FetchFails(fn, response[i])}

C12_EmptyInput ==
    (fn = "gamelogs" /\ N = 0) =>
        /\ fpc \in {"called", "returned"}
        /\ semaphore = 0
        /\ task = <<>>
        /\ results = <<>>
        /\ valid_dataframes = <<>>
        /\ log = {}

\* C12's case: the call with the empty list has returned.
C12_Witness ==
    fn = "gamelogs" /\ N = 0 /\ fpc = "returned"

\* the function has created its semaphore
SemaphoreCreated == fpc # "called" /\ ~(fn = "gamelogs" /\ N = 0)

\* C13: from the creation of the semaphore on, its free slots plus the
\* fetches in flight (one slot each) are max_concurrent: a finished fetch
\* holds no slot, however it ended; and when the batch is over every slot is
\* free.
C13_SlotRelease ==
    SemaphoreCreated =>
        /\ semaphore + Cardinality(InFlight) = max_concurrent
        /\ \A i \in Finished : task[i] # "fetching"
        /\ Over => semaphore = max_concurrent

\* C13's case: two slots, and fetches that ended in an uncaught exception,
\* a caught error and an empty payload; the batch is over.
C13_Witness ==
    /\ fn = "gamelogs" /\ fpc = "returned" /\ max_concurrent = 2
    /\ {"timeout", "client_error", "no_events"} \subseteq
            {response[i] : i \in 1..N}
    /\ semaphore = max_concurrent

\* the records collected for one category have different column sets
MixedColumns ==
    IF fn = "gamelogs"
    THEN {"events", "events18"} \subseteq {response[i] : i \in 1..N}
    ELSE \E i, j \in 1..N :
            /\ player_ids[i].position \in rushing_positions
            /\ player_ids[j].position \in rushing_positions
            /\ response[i] = "categories" /\ response[j] = "categories_wide"

\* C14 (as claimed): when the records collected for one category have
\* different column sets, the aggregation still returns one table (over the
\* union of the columns) and does not raise.
C14_ColumnUnion ==
    (Over /\ MixedColumns) => fpc = "returned"

\* C15 (as claimed): every non-empty dataframe a player's fetch returned is
\* part of the combined table get_multiple_player_gamelogs_async returns,
\* whatever its number of columns.
C15_NoDroppedRows ==
    (fn = "gamelogs" /\ fpc = "returned") =>
        \A i \in 1..N :
            (results[i].value.kind = "df" /\ ~is_empty(results[i].value)) =>
                \E k \in 1..Len(valid_dataframes) :
                    valid_dataframes[k] = player_ids[i].id

InTable(t, id) == \E k \in 1..Len(t) : t[k] = id

InInputOrder(test) ==
    LET idx == SelectSeq([i \in 1..N |-> i], LAMBDA i : test[i])
    IN  [k \in 1..Len(idx) |-> player_ids[idx[k]].id]

\* C17: what each orchestrator ends with is determined by the player list
\* and the per-player responses alone: while the fetches complete, in any
\* order, each finished fetch's outcome sits in its own player's slot; at
\* the end the kept dataframes are those of the players whose response
\* yields one, in the order of the input list, and whether pl.concat raises
\* depends on the responses only.
C17_Deterministic ==
    /\ fpc = "gather" =>
          \A i \in Finished :
              /\ results[i].of = i
              /\ results[i].value = Fetch(fn, player_ids[i], response[i])
    /\ (fpc \in {"returned", "concat_error"}) =>
           /\ fn = "gamelogs" =>
                 /\ valid_dataframes =
                       InInputOrder([i \in 1..N |->
                           response[i] \in {"events", "events18"}])
                 /\ (fpc = "concat_error") = MixedColumns
           /\ fn = "stats" =>
                 /\ rushing_data =
                       InInputOrder([i \in 1..N |->
                           /\ response[i] # "error"
                           /\ player_ids[i].position \in rushing_positions])
                 /\ receiving_data =
                       InInputOrder([i \in 1..N |->
                           /\ response[i] # "error"
                           /\ player_ids[i].position \in receiving_positions])

\* C17's case: three players with data, and the third player's fetch has
\* finished before the first player's fetch has started: its dataframe is in
\* the third slot.
C17_Witness ==
    /\ fn = "gamelogs" /\ fpc = "gather" /\ N >= 3
    /\ \A i \in 1..N : response[i] = "events"
    /\ task[3] = "done" /\ task[1] = "waiting"
    /\ results[3].value.player = player_ids[3].id

(***************************************************************************)
(* get_multiple_player_gamelogs_async under a fair scheduler.  The asyncio *)
(* event loop runs a callback whenever one is ready, asyncio.Semaphore     *)
(* wakes a waiter whenever a slot is free, and a fetch in flight ends      *)
(* within aiohttp.ClientTimeout(total=10), by a response or by             *)
(* asyncio.TimeoutError: a step that stays possible is eventually taken.   *)
(***************************************************************************)
InitGamelogs == InitFetch /\ fn = "gamelogs"

NextGamelogs ==
    \/ ReturnEmpty
    \/ CreateTasks
    \/ \E i \in 1..N : Acquire(i)
    \/ \E i \in 1..N : Finish(i)
    \/ CombineGamelogs

FairSpecGamelogs ==
    InitGamelogs /\ [][NextGamelogs]_vars /\ WF_vars(NextGamelogs)

\* the call is over and every player's task has held a slot and finished
AllFetched == \A i \in 1..N : task[i] = "done" /\ results[i].of = i

C18_PartialSuccess ==
    (flow_state = "failed" /\ cause = "store") =>
        \A k \in (step + 1)..Len(Tasks(flow)) : task_state[k] # "pending"

\* C19 (as claimed): when get_prop_odds has run a second time over the same
\* events, markets and responses, nfl_prop_odds holds no record twice: its
\* rows are those the first run left.
C19_NoDuplicateOdds ==
    (run = 2 /\ odds_state = "completed") =>
        /\ nfl_prop_odds.rows = first_run
        /\ \A k \in 1..Len(nfl_prop_odds.rows) : nfl_prop_odds.rows[k] <= 1

(***************************************************************************)
(* The storage engine's claims, continued.                                 *)
(***************************************************************************)
\* C22: in every step of any sequence of write_to_db, write_to_game_db,
\* insert_into_db and get_from_db calls, whether they return or raise, a
\* table that exists still exists afterwards; existence only changes from
\* absent to created, and only by the CREATE of a first write.
C22_TableLifecycle ==
    [][/\ db.exists => db'.exists
       /\ (~db.exists /\ db'.exists) =>
             (pc = "create" /\ call.op # "get_from_db")]_vars

\* C22's case: a write_to_db call has deleted every row of the table and
\* then failed; the table exists, empty, and a get_from_db call has read it.
C22_Witness ==
    /\ call.op = "get_from_db" /\ pc = "done" /\ status = "ok"
    /\ db.exists /\ db.rows = NoRows

\* what a write_to_db(df, name, id_field) call that found table t leaves,
\* by the way it ends
write_to_db_leaves(t, id_field, df, st) ==
    LET deleted == DeleteWhereIn(t, id_field, df)
    IN  IF ~t.exists
        THEN IF st = "ok" THEN {CreateTableAs(df)} ELSE {t}
        ELSE CASE st = "ok" -> {InsertAll(deleted, df)}
               [] st = "SchemaConflict" -> {deleted}
               [] st = "ConnectionError" -> {t, deleted}
               [] OTHER -> {}

\* C26: write_to_game_db(df, name) and write_to_db(df, name, "game_id")
\* leave the same store: at each statement and at the end, however the call
\* ends, the table is the one write_to_db's statements with id_field =
\* "game_id" make of the table found and df, and the call is rejected for
\* incompatible columns in the same cases.
C26_GameDbEquivalent ==
    (call.op \in {"write_to_db", "write_to_game_db"} /\ KeyOf(call) = "game_id") =>
        /\ pc = "insert" => db = DeleteWhereIn(pre, "game_id", call.df)
        /\ pc = "commit" => db \in write_to_db_leaves(pre, "game_id", call.df, "ok")
        /\ pc = "done" =>
              /\ db \in write_to_db_leaves(pre, "game_id", call.df, status)
              /\ (status = "SchemaConflict") => ~InsertBinds(pre, call.df)
              /\ (status = "ok" /\ pre.exists) => InsertBinds(pre, call.df)

\* C26's case: write_to_game_db has returned on a table that held a row
\* with a NULL game_id and a row it replaced.
C26_Witness ==
    /\ Returned("write_to_game_db") /\ pre.exists
    /\ HasNullKey(pre.rows)
    /\ \E r \in Rows : pre.rows[r] > 0 /\ r.game_id # NULL
                        /\ r.game_id \in Column(call.df.rows, "game_id")

\* the rows of a table whose key column holds v
KeyCount(rows, col, v) == SumOver({r \in Rows : r[col] = v}, rows)

\* C27: from an absent table, at every moment of any sequence of
\* write_to_db calls with one key column, or of insert_into_db calls, each
\* with a table of pairwise distinct non-NULL key values, and whether the
\* calls return or raise, no key value occurs in two rows of the
\* destination.
C27_KeyUniqueness ==
    (db.exists /\ call.op # "none") =>
        \A v \in GameIds \cup PlayerIds : KeyCount(db.rows, KeyOf(call), v) <= 1

\* C27's case: a later write_to_db call has replaced a row of the same key
\* and returned, and the table holds two rows.
C27_Witness ==
    /\ Returned("write_to_db") /\ pre.exists
    /\ RowCount(db.rows) = 2
    /\ \E r \in Rows : pre.rows[r] > 0 /\ call.df.rows[r] = 0
                        /\ r[call.id_field] \in Column(call.df.rows, call.id_field)

\* C28: on an existing destination, the DELETE of write_to_db removes
\* exactly the rows whose key is not NULL and equals an incoming key; a row
\* with a NULL key is never deleted, so when the call returns the table
\* holds every NULL-keyed row it held plus those of df: each repeated call
\* adds df's NULL-keyed rows once more.
C28_NullKeysReplace ==
    /\ (call.op = "write_to_db" /\ pc = "insert") =>
          \A r \in Rows :
              db.rows[r] =
                  IF /\ r[call.id_field] # NULL
                     /\ r[call.id_field] \in Column(call.df.rows, call.id_field)
                  THEN 0 ELSE pre.rows[r]
    /\ (Returned("write_to_db") /\ pre.exists) =>
          \A r \in Rows :
              r[call.id_field] = NULL =>
                  db.rows[r] = pre.rows[r] + call.df.rows[r]

\* C28's case: the third call with the same one-row table, whose game_id
\* is NULL, has returned: the table holds the row three times.
C28_Witness ==
    /\ Returned("write_to_db") /\ repeat = "after_update"
    /\ call.id_field = "game_id"
    /\ HasNullKey(call.df.rows) /\ RowCount(call.df.rows) = 1
    /\ RowCount(db.rows) = 3

(***************************************************************************)
(* The pipelines' claims, continued.                                       *)
(***************************************************************************)
\* C21 (as claimed): populate_player_gamelog gets from the orchestrator to
\* its insert_into_db calls: it never ends in an error raised between the
\* orchestrator call and the write, so it only fails for a store error.
C21_GamelogReachesStore ==
    \A k \in 1..Len(task_state) :
        (Tasks(flow)[k] = "populate_player_gamelog" /\ task_state[k] = "failed")
            => cause = "store"

\* C25 (as claimed): a failure for one (event, market) pair, a request
\* exception or a response without the bookmakers structure, is recovered
\* locally: the run, in which no store error occurs, processes every pair
\* and completes.
C25_OddsIsolation ==
    (odds_state \in {"completed", "failed"}) =>
        /\ odds_state = "completed"
        /\ position = Len(games) + 1

(***************************************************************************)
(* The scraper's claims.                                                   *)
(***************************************************************************)
\* C23 (as claimed): scrape_url makes at most max_retries attempts, makes
\* no further attempt once an attempt has succeeded (with success set, the
\* loop is left or over), and its result has success = True exactly when
\* some attempt parsed the requested table, whatever the attempts raise.
C23_ScraperRetry ==
    /\ attempt <= max_retries
    /\ (spc = "loop" /\ result.success) => attempt = max_retries
    /\ result.success = produced

\* C24: while scrape_multiple_urls runs and when it returns, results holds
\* one result for each URL already processed, in input order and carrying
\* that URL (and, if successful, the table of that URL's page); a URL none
\* of whose attempts parsed the table has success = False, and the loop
\* still goes on to the last URL; get_failed_urls lists the URLs of the
\* failed results in input order.
C24_MultiUrl ==
    (caller \in {"sumer_advanced_stats", "sharp_defense_stats"}) =>
        /\ Len(scrape_results) = IF spc \in {"done", "returned"}
                                 THEN Len(urls) ELSE url_index - 1
        /\ \A k \in 1..Len(scrape_results) :
              /\ scrape_results[k].url = urls[k]
              /\ scrape_results[k].success =>
                    scrape_results[k].dataframe = urls[k]
              /\ ~scrape_results[k].success =>
                    scrape_results[k].dataframe = "None"
        /\ ~produced => ~result.success
        /\ get_failed_urls(scrape_results) =
              SelectSeq(SubSeq(urls, 1, Len(scrape_results)),
                        LAMBDA u : \E k \in 1..Len(scrape_results) :
                                      /\ scrape_results[k].url = u
                                      /\ ~scrape_results[k].success)

\* C24's case: four URLs, the second of which failed all its attempts and
\* the third and fourth of which were scraped successfully after it.
C24_Witness ==
    /\ caller = "sharp_defense_stats" /\ spc = "done"
    /\ Len(scrape_results) = Len(urls)
    /\ ~scrape_results[2].success /\ scrape_results[2].error = "exception"
    /\ scrape_results[3].success /\ scrape_results[4].success

\* C29 (as claimed): a result of scrape_url with success = True has its
\* dataframe set and its error None, whatever attempts failed before the
\* successful one.
C29_ResultConsistency ==
    /\ (spc = "break" /\ result.success) =>
          (result.dataframe # "None" /\ result.error = "None")
    /\ \A k \in 1..Len(scrape_results) :
          scrape_results[k].success =>
              /\ scrape_results[k].dataframe # "None"
              /\ scrape_results[k].error = "None"

\* C30: when sumer_advanced_stats returns, its first table comes from the
\* defensive page and its second from the offensive page; when either
\* scrape failed it has raised (IndexError) and returned no pair.
C30_NoMislabel ==
    (caller = "sumer_advanced_stats" /\ spc = "returned") =>
        /\ returned.status \in {"returned", "IndexError"}
        /\ returned.status = "returned" =>
              /\ returned.defense = sumer_urls[1]
              /\ returned.offense = sumer_urls[2]
        /\ (\E k \in 1..Len(scrape_results) : ~scrape_results[k].success) =>
              returned.status = "IndexError"

\* C30's case: the defensive scrape failed, the offensive one succeeded,
\* and sumer_advanced_stats raised.
C30_Witness ==
    /\ caller = "sumer_advanced_stats" /\ spc = "returned"
    /\ ~scrape_results[1].success /\ scrape_results[2].success
    /\ returned.status = "IndexError"

====
